---- MODULE Spec2Model ----
(***************************************************************************)
(* MazeAI: the maze generator (maze.py), the frontiers (util.py) and the   *)
(* four searches (search.py).  Coordinates are <<row, col>>, zero-based.   *)
(* A grid is a function row -> (col -> cell kind), as the list of lists.   *)
(***************************************************************************)
EXTENDS Integers, Sequences, FiniteSets, TLC

\* Largest rows / cols argument given to Maze(rows, cols).
MaxDim == 6
\* Largest number of add / remove calls made on a frontier used on its own.
MaxCalls == 6
\* Size of the exhaustively enumerated hand-built grids.
HandRows == 2
HandCols == 3

Wall == "#"
Open == " "
StartCell == "S"
GoalCell == "G"
None == <<>>

Algs == {"bfs", "dfs", "greedy", "astar"}

VARIABLES
  in_rows, in_cols,       \* the arguments of Maze(rows, cols)
  rows, cols,             \* self.rows, self.cols
  maze,                   \* the grid (local `maze` while generating, then self.maze)
  start, goal,            \* self.start, self.goal
  stack,                  \* the carve stack of generate_solvable_maze
  gpc,                    \* position of the constructor: new, carve, done, error; hand, frontier
  alg,                    \* the search variant being run
  nodes,                  \* arena of the Node / CostNode objects created so far
  frontier,               \* frontier.frontier: sequence of node handles
  explored_states,        \* the explored set
  explored,               \* the explored list
  spc,                    \* position of the search: idle, loop, solved, nosolution, emptyfrontier
  found,                  \* handle of the goal node that was dequeued (0: none)
  path, out_explored,     \* the returned pair
  dequeued,               \* history: the handles frontier.remove() returned, in order
  raised,                 \* message of the exception the last call raised, or "none"
  calls,                  \* history: the add / remove calls made on a frontier used on its own
  other,                  \* the locals of a second search call, suspended while this one runs
  results                 \* the (explored_len, path_len) pair a batch harness recorded, or <<>>

gvars == <<in_rows, in_cols, rows, cols, maze, start, goal, stack, gpc>>
svars == <<alg, nodes, frontier, explored_states, explored, spc, found, path, out_explored,
           dequeued, raised, calls>>
vars == <<in_rows, in_cols, rows, cols, maze, start, goal, stack, gpc,
          alg, nodes, frontier, explored_states, explored, spc, found, path,
          out_explored, dequeued, raised, calls, other, results>>

----------------------------------------------------------------------------
(* Grid helpers *)

NewGrid(R, C, kind) == [r \in 0..(R - 1) |-> [c \in 0..(C - 1) |-> kind]]

SetCell(m, r, c, kind) == [m EXCEPT ![r][c] = kind]

NumRows(m) == Cardinality(DOMAIN m)

NumCols(m) == IF DOMAIN m = {} THEN 0 ELSE Cardinality(DOMAIN m[0])

CellsOf(m) == {<<r, c>> : r \in DOMAIN m, c \in 0..(NumCols(m) - 1)}

CountKind(m, kind) == Cardinality({p \in CellsOf(m) : m[p[1]][p[2]] = kind})

NonWall(m) == {p \in CellsOf(m) : m[p[1]][p[2]] # Wall}

Abs(x) == IF x < 0 THEN -x ELSE x

----------------------------------------------------------------------------
(* maze.py: Maze.__init__ and generate_solvable_maze *)

\* variant: the next number, whatever the parity
ForceOddAlways(n) == n + 1

\* rows if rows % 2 == 1 else rows + 1
ForceOdd(n) == IF n % 2 = 1 THEN n ELSE n + 1

\* self.rows |= 1
OrOne(n) == IF n % 2 = 1 THEN n ELSE n + 1

\* variant: the step of 2 left out, random.randrange(lo, hi)
RandRange1(lo, hi) == lo..(hi - 1)

\* random.randrange(lo, hi, 2): the values it can return; empty means ValueError
RandRange2(lo, hi) == {k \in lo..(hi - 1) : (k - lo) % 2 = 0}

\* directions = [(0, 1), (1, 0), (0, -1), (-1, 0)]
directions == <<(<<0, 1>>), (<<1, 0>>), (<<0, -1>>), (<<-1, 0>>)>>

\* sorted(directions, key=random...): every order of the four directions
biased_dirs == {s \in [1..4 -> 1..4] : \A i, j \in 1..4 : i # j => s[i] # s[j]}

\* the list allocated at line 42
AllocGrid(R, C) == NewGrid(R, C, Wall)

\* variant: the cell between the two lattice cells is left a wall
RECURSIVE CarveDirsNoBetween(_, _, _, _, _, _, _, _)
CarveDirsNoBetween(m, stk, R, C, r, c, order, i) ==
  IF i > 4 THEN [maze |-> m, stack |-> stk]
  ELSE LET nr == r + directions[order[i]][1] * 2
           nc == c + directions[order[i]][2] * 2
       IN IF 0 <= nr /\ nr < R /\ 0 <= nc /\ nc < C /\ m[nr][nc] = Wall
          THEN CarveDirsNoBetween(SetCell(m, nr, nc, Open), Append(stk, <<nr, nc>>),
                                  R, C, r, c, order, i + 1)
          ELSE CarveDirsNoBetween(m, stk, R, C, r, c, order, i + 1)

\* the body of `for dr, dc in biased_dirs`, from position i of the order on
RECURSIVE CarveDirs(_, _, _, _, _, _, _, _)
CarveDirs(m, stk, R, C, r, c, order, i) ==
  IF i > 4 THEN [maze |-> m, stack |-> stk]
  ELSE LET dr == directions[order[i]][1]
           dc == directions[order[i]][2]
           nr == r + dr * 2
           nc == c + dc * 2
       IN IF 0 <= nr /\ nr < R /\ 0 <= nc /\ nc < C /\ m[nr][nc] = Wall
          THEN CarveDirs(SetCell(SetCell(m, r + dr, c + dc, Open), nr, nc, Open),
                         Append(stk, <<nr, nc>>), R, C, r, c, order, i + 1)
          ELSE CarveDirs(m, stk, R, C, r, c, order, i + 1)

\* for dr, dc in [(-1, 0), (1, 0), (0, -1), (0, 1)] of find_farthest_point
farthest_dirs == <<(<<-1, 0>>), (<<1, 0>>), (<<0, -1>>), (<<0, 1>>)>>

RECURSIVE FarthestEnqueue(_, _, _, _, _, _)
FarthestEnqueue(m, queue, r, c, dist, i) ==
  IF i > 4 THEN queue
  ELSE LET nr == r + farthest_dirs[i][1]
           nc == c + farthest_dirs[i][2]
       IN IF 0 <= nr /\ nr < NumRows(m) /\ 0 <= nc /\ nc < NumCols(m)
             /\ m[nr][nc] = Open
          THEN FarthestEnqueue(m, Append(queue, <<nr, nc, dist + 1>>), r, c, dist, i + 1)
          ELSE FarthestEnqueue(m, queue, r, c, dist, i + 1)

\* variant: the comparison turned round
FarthestBetterFlipped(dist, max_dist) == dist < max_dist

\* variant: a cell at the same distance replaces the one kept
FarthestBetterOrEqual(dist, max_dist) == dist >= max_dist

\* if dist > max_dist
FarthestBetter(dist, max_dist) == dist > max_dist

\* the while loop of find_farthest_point
RECURSIVE FarthestLoop(_, _, _, _, _)
FarthestLoop(m, queue, visited, farthest, max_dist) ==
  IF queue = <<>> THEN farthest
  ELSE LET r == Head(queue)[1]
           c == Head(queue)[2]
           dist == Head(queue)[3]
       IN IF <<r, c>> \in visited
          THEN FarthestLoop(m, Tail(queue), visited, farthest, max_dist)
          ELSE FarthestLoop(m, FarthestEnqueue(m, Tail(queue), r, c, dist, 1),
                            visited \cup {<<r, c>>},
                            IF FarthestBetter(dist, max_dist) THEN <<r, c>> ELSE farthest,
                            IF FarthestBetter(dist, max_dist) THEN dist ELSE max_dist)

\* the (r, c, dist) entries the loop takes from the queue and does not skip,
\* in the order it takes them
RECURSIVE FarthestVisits(_, _, _)
FarthestVisits(m, queue, visited) ==
  IF queue = <<>> THEN <<>>
  ELSE LET r == Head(queue)[1]
           c == Head(queue)[2]
           dist == Head(queue)[3]
       IN IF <<r, c>> \in visited
          THEN FarthestVisits(m, Tail(queue), visited)
          ELSE <<Head(queue)>>
                 \o FarthestVisits(m, FarthestEnqueue(m, Tail(queue), r, c, dist, 1),
                                   visited \cup {<<r, c>>})

find_farthest_point(m, s) == FarthestLoop(m, <<(<<s[1], s[2], 0>>)>>, {}, s, -1)

\* Maze(rows, cols) up to the first test of `while stack`; randrange raises
\* ValueError on an empty range, which leaves self.maze unassigned.
Construct ==
  /\ gpc = "new"
  /\ LET R == OrOne(ForceOdd(in_rows))
         C == OrOne(ForceOdd(in_cols))
     IN /\ rows' = R
        /\ cols' = C
        /\ IF RandRange2(1, R) = {} \/ RandRange2(1, C) = {}
           THEN /\ gpc' = "error"
                /\ UNCHANGED <<maze, start, stack>>
           ELSE \E sr \in RandRange2(1, R), sc \in RandRange2(1, C) :
                  /\ maze' = SetCell(AllocGrid(R, C), sr, sc, StartCell)
                  /\ start' = <<sr, sc>>
                  /\ stack' = <<(<<sr, sc>>)>>
                  /\ gpc' = "carve"
  /\ UNCHANGED <<in_rows, in_cols, goal>>
  /\ UNCHANGED <<svars, other, results>>

\* one iteration of `while stack`
CarveStep ==
  /\ gpc = "carve"
  /\ stack # <<>>
  /\ \E order \in biased_dirs :
       LET top == stack[Len(stack)]
           res == CarveDirs(maze, SubSeq(stack, 1, Len(stack) - 1), rows, cols,
                            top[1], top[2], order, 1)
       IN /\ maze' = res.maze
          /\ stack' = res.stack
  /\ UNCHANGED <<in_rows, in_cols, rows, cols, start, goal, gpc>>
  /\ UNCHANGED <<svars, other, results>>

\* lines 67-76: the goal placement once the stack is empty
PlaceGoal ==
  /\ gpc = "carve"
  /\ stack = <<>>
  /\ LET cleared == SetCell(maze, start[1], start[2], Open)
         g == find_farthest_point(cleared, start)
     IN /\ goal' = g
        /\ maze' = SetCell(SetCell(cleared, g[1], g[2], GoalCell),
                           start[1], start[2], StartCell)
  /\ gpc' = "done"
  /\ UNCHANGED <<in_rows, in_cols, rows, cols, start, stack>>
  /\ UNCHANGED <<svars, other, results>>

----------------------------------------------------------------------------
(* maze.py: the query surface *)

get_goal == goal

\* variant: the offsets of left and right exchanged
movesSwapped == <<[action |-> "left", d |-> <<0, 1>>], [action |-> "right", d |-> <<0, -1>>],
                  [action |-> "up", d |-> <<-1, 0>>], [action |-> "down", d |-> <<1, 0>>]>>

\* moves = {'left': (0, -1), 'right': (0, 1), 'up': (-1, 0), 'down': (1, 0)}
moves == <<[action |-> "left", d |-> <<0, -1>>], [action |-> "right", d |-> <<0, 1>>],
           [action |-> "up", d |-> <<-1, 0>>], [action |-> "down", d |-> <<1, 0>>]>>

\* variant: the first row and the first column taken to be outside the grid
LegalMoveOffByOne(m, R, C, r, c) == 0 < r /\ r < R /\ 0 < c /\ c < C /\ m[r][c] # Wall

\* variant: the wall test forgotten
LegalMoveNoWallTest(m, R, C, r, c) == 0 <= r /\ r < R /\ 0 <= c /\ c < C

\* the test of line 219
LegalMove(m, R, C, r, c) == 0 <= r /\ r < R /\ 0 <= c /\ c < C /\ m[r][c] # Wall

RECURSIVE NextFrom(_, _, _, _, _)
NextFrom(m, R, C, st, i) ==
  IF i > Len(moves) THEN <<>>
  ELSE LET nr == st[1] + moves[i].d[1]
           nc == st[2] + moves[i].d[2]
           rest == NextFrom(m, R, C, st, i + 1)
       IN IF LegalMove(m, R, C, nr, nc)
          THEN <<(<<moves[i].action, <<nr, nc>>>>)>> \o rest
          ELSE rest

\* Maze.get_next(node): the (action, next_state) pairs of a state
get_next(m, R, C, st) == NextFrom(m, R, C, st, 1)

----------------------------------------------------------------------------
(* util.py: nodes, frontiers, priority functions *)

Node(state, parent, action) == [state |-> state, parent |-> parent, action |-> action]

CostNode(state, parent, action, cost) ==
  [state |-> state, parent |-> parent, action |-> action, cost |-> cost]

\* variant: the larger of the two differences counted twice
manhattan_distance_doubled(node, g) ==
  LET dr == Abs(node.state[1] - g[1])
      dc == Abs(node.state[2] - g[2])
  IN IF dr >= dc THEN dr + dr ELSE dc + dc

manhattan_distance(node, g) == Abs(node.state[1] - g[1]) + Abs(node.state[2] - g[2])

cumulative_cost_function(node, g) == manhattan_distance(node, g) + node.cost

\* variant: greedy_first_search constructs a QueueFrontier
FrontierClassGreedyQueue(a) ==
  CASE a \in {"bfs", "greedy"} -> "QueueFrontier"
    [] a = "dfs" -> "StackFrontier"
    [] OTHER -> "PriorityQueueFrontier"

\* the frontier class and the priority function each search constructs
FrontierClass(a) ==
  CASE a = "bfs" -> "QueueFrontier"
    [] a = "dfs" -> "StackFrontier"
    [] OTHER -> "PriorityQueueFrontier"

func(a, node, g) ==
  IF a = "astar" THEN cumulative_cost_function(node, g) ELSE manhattan_distance(node, g)

\* StackFrontier.contains_state
contains_state(fr, nds, state) == \E i \in 1..Len(fr) : nds[fr[i]].state = state

\* StackFrontier.empty
empty(fr) == Len(fr) = 0

\* raise Exception("empty frontier")
EmptyFrontierError == "empty frontier"

\* raise Exception("No solution")
NoSolutionError == "No solution"

\* variant: the first node is taken
StackRemoveFirst(fr) ==
  IF empty(fr) THEN [error |-> EmptyFrontierError, node |-> 0, frontier |-> fr]
  ELSE [error |-> "none", node |-> fr[1], frontier |-> SubSeq(fr, 2, Len(fr))]

\* variant: nothing is raised on an empty frontier, no node comes back
StackRemoveSilent(fr) ==
  IF empty(fr) THEN [error |-> "none", node |-> 0, frontier |-> fr]
  ELSE [error |-> "none", node |-> fr[Len(fr)], frontier |-> SubSeq(fr, 1, Len(fr) - 1)]

\* StackFrontier.remove: raises when empty, else node = frontier[-1]; frontier = frontier[:-1]
StackRemove(fr) ==
  IF empty(fr) THEN [error |-> EmptyFrontierError, node |-> 0, frontier |-> fr]
  ELSE [error |-> "none", node |-> fr[Len(fr)], frontier |-> SubSeq(fr, 1, Len(fr) - 1)]

\* variant: the override takes the last node, as the stack does
QueueRemoveLast(fr) ==
  IF empty(fr) THEN [error |-> EmptyFrontierError, node |-> 0, frontier |-> fr]
  ELSE [error |-> "none", node |-> fr[Len(fr)], frontier |-> SubSeq(fr, 1, Len(fr) - 1)]

\* QueueFrontier.remove: raises when empty, else node = frontier[0]; frontier = frontier[1:]
QueueRemove(fr) ==
  IF empty(fr) THEN [error |-> EmptyFrontierError, node |-> 0, frontier |-> fr]
  ELSE [error |-> "none", node |-> fr[1], frontier |-> SubSeq(fr, 2, Len(fr))]

remove(a, fr) == IF FrontierClass(a) = "StackFrontier" THEN StackRemove(fr) ELSE QueueRemove(fr)

\* variant: a sort that puts a node before the nodes of equal priority
RECURSIVE SortInsertBeforeEqual(_, _, _, _, _)
SortInsertBeforeEqual(a, nds, g, sorted, h) ==
  IF sorted = <<>> THEN <<h>>
  ELSE IF func(a, nds[h], g) <= func(a, nds[Head(sorted)], g)
       THEN <<h>> \o sorted
       ELSE <<Head(sorted)>> \o SortInsertBeforeEqual(a, nds, g, Tail(sorted), h)

\* list.sort(key=...): a stable sort, here by insertion from the left
RECURSIVE SortInsert(_, _, _, _, _)
SortInsert(a, nds, g, sorted, h) ==
  IF sorted = <<>> THEN <<h>>
  ELSE IF func(a, nds[h], g) < func(a, nds[Head(sorted)], g)
       THEN <<h>> \o sorted
       ELSE <<Head(sorted)>> \o SortInsert(a, nds, g, Tail(sorted), h)

RECURSIVE StableSort(_, _, _, _)
StableSort(a, nds, g, fr) ==
  IF fr = <<>> THEN <<>>
  ELSE SortInsert(a, nds, g,
                  StableSort(a, nds, g, SubSeq(fr, 1, Len(fr) - 1)), fr[Len(fr)])

\* StackFrontier.add
StackAdd(fr, h) == Append(fr, h)

\* PriorityQueueFrontier.add: append, then sort the whole list
PriorityAdd(a, nds, g, fr, h) == StableSort(a, nds, g, Append(fr, h))

add(a, nds, g, fr, h) ==
  IF FrontierClass(a) = "PriorityQueueFrontier" THEN PriorityAdd(a, nds, g, fr, h)
  ELSE StackAdd(fr, h)

----------------------------------------------------------------------------
(* search.py: the four searches share one loop *)

\* the node a search creates for a state (CostNode in astar_first_search)
MakeNode(a, state, parent, action, cost) ==
  IF a = "astar" THEN CostNode(state, parent, action, cost)
  ELSE Node(state, parent, action)

\* variant: the child is given the cost of its parent
ChildCostOfParent(a, node) == IF a = "astar" THEN node.cost ELSE 0

\* cost = node.cost + 1
ChildCost(a, node) == IF a = "astar" THEN node.cost + 1 ELSE 0

\* variant: the frontier is not consulted
ShouldAddUnlessExplored(fr, nds, expl, state) == state \notin expl

\* variant: the explored set is not consulted
ShouldAddUnlessInFrontier(fr, nds, expl, state) == ~contains_state(fr, nds, state)

\* if not frontier.contains_state(state) and state not in explored_states
ShouldAdd(fr, nds, expl, state) == ~contains_state(fr, nds, state) /\ state \notin expl

\* for action, state in maze.get_next(node): ... frontier.add(child)
RECURSIVE ExpandLoop(_, _, _, _, _, _, _, _)
ExpandLoop(a, g, nds, fr, expl, nbrs, i, h) ==
  IF i > Len(nbrs) THEN [nodes |-> nds, frontier |-> fr]
  ELSE LET action == nbrs[i][1]
           state == nbrs[i][2]
       IN IF ShouldAdd(fr, nds, expl, state)
          THEN LET child == MakeNode(a, state, h, action, ChildCost(a, nds[h]))
                   nds2 == Append(nds, child)
               IN ExpandLoop(a, g, nds2, add(a, nds2, g, fr, Len(nds2)), expl, nbrs, i + 1, h)
          ELSE ExpandLoop(a, g, nds, fr, expl, nbrs, i + 1, h)

\* while node.parent is not None: path.append((node.action, node.state))
RECURSIVE WalkParents(_, _)
WalkParents(nds, h) ==
  IF nds[h].parent = 0 THEN <<>>
  ELSE <<(<<nds[h].action, nds[h].state>>)>> \o WalkParents(nds, nds[h].parent)

\* path.reverse()
Reverse(s) == [i \in 1..Len(s) |-> s[Len(s) + 1 - i]]

\* variant: the whole list is returned
WholeList(s) == s

\* path[:-1]
AllButLast(s) == SubSeq(s, 1, Len(s) - 1)

\* variant: the explored list is returned with the start state in it
KeepFirst(s) == s

\* explored[1:]
AllButFirst(s) == SubSeq(s, 2, Len(s))

\* the call search(maze.start, maze): the start node is created and added
BeginSearch(a) ==
  /\ gpc \in {"done", "hand"}
  /\ spc = "idle"
  /\ alg' = a
  /\ nodes' = <<MakeNode(a, start, 0, "none", 0)>>
  /\ frontier' = add(a, nodes', get_goal, <<>>, 1)
  /\ explored_states' = {}
  /\ explored' = <<>>
  /\ spc' = "loop"
  /\ UNCHANGED <<found, path, out_explored, dequeued, raised, calls>>
  /\ UNCHANGED <<gvars, other, results>>

Begin == \E a \in Algs : BeginSearch(a)

\* variant: the emptiness check left out of the loop
LoopCheckSkipped(fr) == FALSE

\* if frontier.empty(): raise Exception("No solution")
LoopCheck(fr) == empty(fr)

\* one iteration of `while True`
Step ==
  /\ spc = "loop"
  /\ IF LoopCheck(frontier)
     THEN /\ spc' = "nosolution"
          /\ raised' = NoSolutionError
          /\ UNCHANGED <<nodes, frontier, explored_states, explored, found, path,
                         out_explored, dequeued>>
     ELSE LET rem == remove(alg, frontier)
              h == rem.node
          IN IF rem.error # "none"
             THEN /\ spc' = "emptyfrontier"
                  /\ raised' = rem.error
                  /\ frontier' = rem.frontier
                  /\ UNCHANGED <<nodes, explored_states, explored, found, path,
                                 out_explored, dequeued>>
             ELSE IF nodes[h].state = get_goal
             THEN /\ spc' = "solved"
                  /\ found' = h
                  /\ path' = AllButLast(Reverse(WalkParents(nodes, h)))
                  /\ out_explored' = AllButFirst(explored)
                  /\ frontier' = rem.frontier
                  /\ dequeued' = Append(dequeued, h)
                  /\ UNCHANGED <<nodes, explored_states, explored, raised>>
             ELSE LET expl == explored_states \cup {nodes[h].state}
                      res == ExpandLoop(alg, get_goal, nodes, rem.frontier, expl,
                                        get_next(maze, rows, cols, nodes[h].state), 1, h)
                  IN /\ explored_states' = expl
                     /\ explored' = Append(explored, nodes[h].state)
                     /\ nodes' = res.nodes
                     /\ frontier' = res.frontier
                     /\ dequeued' = Append(dequeued, h)
                     /\ UNCHANGED <<spc, found, path, out_explored, raised>>
  /\ UNCHANGED <<alg, calls>>
  /\ UNCHANGED <<gvars, other, results>>

----------------------------------------------------------------------------
(* analysis.py, train.py: the batch harnesses *)

\* return path[:-1], explored[1:]
SearchReturn == <<path, out_explored>>

\* bfs_explored, bfs_path = breadth_first_search(maze.start, maze)
Unpacked == [explored |-> SearchReturn[1], path |-> SearchReturn[2]]

\* bfs_explored_len, bfs_path_len = len(bfs_explored) + 1, len(bfs_path)
Record ==
  /\ gpc = "done"
  /\ spc = "solved"
  /\ results = <<>>
  /\ results' = <<Len(Unpacked.explored) + 1, Len(Unpacked.path)>>
  /\ UNCHANGED <<gvars, svars, other>>

----------------------------------------------------------------------------
(* util.py: a frontier used on its own, by any sequence of add and remove *)

\* the state and cost of the nodes that are added: priorities 1, 3 and 5,
\* and for CostNode a second node of priority 3
FrontierNodes(a) ==
  {<<(<<0, 1>>), 0>>, <<(<<0, 3>>), 0>>, <<(<<0, 5>>), 0>>}
     \cup (IF a = "astar" THEN {<<(<<0, 1>>), 2>>} ELSE {})

\* frontier.add(node) with a new node
FAdd ==
  /\ gpc = "frontier"
  /\ Len(calls) < MaxCalls
  /\ \E n \in FrontierNodes(alg) :
       /\ nodes' = Append(nodes, MakeNode(alg, n[1], 0, "none", n[2]))
       /\ frontier' = add(alg, nodes', goal, frontier, Len(nodes'))
  /\ raised' = "none"
  /\ calls' = Append(calls, "add")
  /\ UNCHANGED <<alg, explored_states, explored, spc, found, path, out_explored, dequeued>>
  /\ UNCHANGED <<gvars, other, results>>

\* frontier.remove()
FRemove ==
  /\ gpc = "frontier"
  /\ Len(calls) < MaxCalls
  /\ LET rem == remove(alg, frontier)
     IN /\ frontier' = rem.frontier
        /\ raised' = rem.error
        /\ dequeued' = IF rem.error = "none" THEN Append(dequeued, rem.node) ELSE dequeued
  /\ calls' = Append(calls, "remove")
  /\ UNCHANGED <<alg, nodes, explored_states, explored, spc, found, path, out_explored>>
  /\ UNCHANGED <<gvars, other, results>>

----------------------------------------------------------------------------
(* search.py: two calls on one Maze object, on two threads *)

\* the locals of the call that is running (its frame)
Locals ==
  [alg |-> alg, nodes |-> nodes, frontier |-> frontier,
   explored_states |-> explored_states, explored |-> explored, spc |-> spc,
   found |-> found, path |-> path, out_explored |-> out_explored,
   dequeued |-> dequeued, raised |-> raised]

\* the locals of a call that has not begun
IdleCall ==
  [alg |-> "none", nodes |-> <<>>, frontier |-> <<>>, explored_states |-> {},
   explored |-> <<>>, spc |-> "idle", found |-> 0, path |-> <<>>,
   out_explored |-> <<>>, dequeued |-> <<>>, raised |-> "none"]

\* variant: explored_states is one set at module level, seen by both calls
ResumeExploredShared(c) == explored_states

\* explored_states = set(): a local, so a resumed call finds its own set
ResumeExplored(c) == c.explored_states

\* the interpreter suspends the running call and resumes the other one
Switch ==
  /\ gpc = "hand"
  /\ other' = Locals
  /\ alg' = other.alg
  /\ nodes' = other.nodes
  /\ frontier' = other.frontier
  /\ explored_states' = ResumeExplored(other)
  /\ explored' = other.explored
  /\ spc' = other.spc
  /\ found' = other.found
  /\ path' = other.path
  /\ out_explored' = other.out_explored
  /\ dequeued' = other.dequeued
  /\ raised' = other.raised
  /\ UNCHANGED <<calls, results>>
  /\ UNCHANGED gvars

\* a search call run from its first line to its return or raise, nothing
\* else running: the loop of the four search functions
RECURSIVE WhileTrue(_, _, _, _, _)
WhileTrue(a, nds, fr, expl, expl_list) ==
  IF LoopCheck(fr)
  THEN [spc |-> "nosolution", raised |-> NoSolutionError, path |-> <<>>, out_explored |-> <<>>]
  ELSE LET rem == remove(a, fr)
           h == rem.node
       IN IF rem.error # "none"
          THEN [spc |-> "emptyfrontier", raised |-> rem.error, path |-> <<>>,
                out_explored |-> <<>>]
          ELSE IF nds[h].state = get_goal
          THEN [spc |-> "solved", raised |-> "none",
                path |-> AllButLast(Reverse(WalkParents(nds, h))),
                out_explored |-> AllButFirst(expl_list)]
          ELSE LET e2 == expl \cup {nds[h].state}
                   res == ExpandLoop(a, get_goal, nds, rem.frontier, e2,
                                     get_next(maze, rows, cols, nds[h].state), 1, h)
               IN WhileTrue(a, res.nodes, res.frontier, e2, Append(expl_list, nds[h].state))

SearchAlone(a) ==
  LET first == <<MakeNode(a, start, 0, "none", 0)>>
  IN WhileTrue(a, first, add(a, first, get_goal, <<>>, 1), {}, <<>>)

----------------------------------------------------------------------------
(* Specifications *)

SearchIdle ==
  /\ alg = "none"
  /\ nodes = <<>>
  /\ frontier = <<>>
  /\ explored_states = {}
  /\ explored = <<>>
  /\ spc = "idle"
  /\ found = 0
  /\ path = <<>>
  /\ out_explored = <<>>
  /\ dequeued = <<>>
  /\ raised = "none"
  /\ calls = <<>>
  /\ other = IdleCall
  /\ results = <<>>

\* Maze(rows, cols) is about to be called with positive arguments.
Init ==
  /\ in_rows \in 1..MaxDim
  /\ in_cols \in 1..MaxDim
  /\ rows = 0
  /\ cols = 0
  /\ maze = None
  /\ start = None
  /\ goal = None
  /\ stack = <<>>
  /\ gpc = "new"
  /\ SearchIdle

Next == Construct \/ CarveStep \/ PlaceGoal \/ Begin \/ Step \/ Record

Spec == Init /\ [][Next]_vars

\* a grid built by hand: walls W, start s and goal g on distinct non-wall cells
HandGrid(R, C, W, s, g) ==
  [r \in 0..(R - 1) |-> [c \in 0..(C - 1) |->
     IF <<r, c>> \in W THEN Wall
     ELSE IF <<r, c>> = s THEN StartCell
     ELSE IF <<r, c>> = g THEN GoalCell
     ELSE Open]]

AllCells(R, C) == (0..(R - 1)) \X (0..(C - 1))

\* the 5x5 corridor scenario: Start (1,1), Goal (1,3), (1,2) open
CorridorGrid == HandGrid(5, 5, AllCells(5, 5) \ {<<1, 1>>, <<1, 2>>, <<1, 3>>},
                         <<1, 1>>, <<1, 3>>)

\* a 3x5 grid with two routes of 7 and 9 steps from (1,0) to (0,4)
DetourWalls == {<<0, 3>>, <<1, 1>>, <<1, 3>>}

DetourGrid == HandGrid(3, 5, DetourWalls, <<1, 0>>, <<0, 4>>)

HandBuilt(R, C, m, s, g) ==
  /\ in_rows = R
  /\ in_cols = C
  /\ rows = R
  /\ cols = C
  /\ maze = m
  /\ start = s
  /\ goal = g
  /\ stack = <<>>
  /\ gpc = "hand"
  /\ SearchIdle

\* a Maze object whose grid, start and goal were set directly
InitHand ==
  \/ \E W \in SUBSET AllCells(HandRows, HandCols) :
       \E s, g \in AllCells(HandRows, HandCols) \ W :
         /\ s # g
         /\ HandBuilt(HandRows, HandCols, HandGrid(HandRows, HandCols, W, s, g), s, g)
  \/ HandBuilt(5, 5, CorridorGrid, <<1, 1>>, <<1, 3>>)
  \/ HandBuilt(3, 5, DetourGrid, <<1, 0>>, <<0, 4>>)

NextHand == Begin \/ Step

SpecHand == InitHand /\ [][NextHand]_vars

\* a frontier of the class a search constructs, empty, with goal (0, 0)
InitFrontier ==
  /\ in_rows = 0
  /\ in_cols = 0
  /\ rows = 0
  /\ cols = 0
  /\ maze = None
  /\ start = None
  /\ goal = <<0, 0>>
  /\ stack = <<>>
  /\ gpc = "frontier"
  /\ alg \in Algs
  /\ nodes = <<>>
  /\ frontier = <<>>
  /\ explored_states = {}
  /\ explored = <<>>
  /\ spc = "idle"
  /\ found = 0
  /\ path = <<>>
  /\ out_explored = <<>>
  /\ dequeued = <<>>
  /\ raised = "none"
  /\ calls = <<>>
  /\ other = IdleCall
  /\ results = <<>>

NextFrontier == FAdd \/ FRemove

SpecFrontier == InitFrontier /\ [][NextFrontier]_vars

\* one Maze object given to two search calls: every HandRows x 2 grid, the
\* corridor and the detour grid
InitPar ==
  \/ \E W \in SUBSET AllCells(HandRows, 2) :
       \E s, g \in AllCells(HandRows, 2) \ W :
         /\ s # g
         /\ HandBuilt(HandRows, 2, HandGrid(HandRows, 2, W, s, g), s, g)
  \/ HandBuilt(5, 5, CorridorGrid, <<1, 1>>, <<1, 3>>)
  \/ HandBuilt(3, 5, DetourGrid, <<1, 0>>, <<0, 4>>)

NextPar == Begin \/ Step \/ Switch

SpecPar == InitPar /\ [][NextPar]_vars

----------------------------------------------------------------------------
(* Reference notions the properties are stated with *)

Adjacent(p, q) == Abs(p[1] - q[1]) + Abs(p[2] - q[2]) = 1

\* breadth-first layers over the non-Wall cells; -1 when target is unreachable
RECURSIVE Layers(_, _, _, _, _)
Layers(m, seen, layer, d, target) ==
  IF target \in layer THEN d
  ELSE IF layer = {} THEN -1
  ELSE LET nxt == {q \in NonWall(m) \ seen : \E p \in layer : Adjacent(p, q)}
       IN Layers(m, seen \cup nxt, nxt, d + 1, target)

ShortestDist(m, s, g) == Layers(m, {s}, {s}, 0, g)

\* the cells a flood fill from s visits
RECURSIVE Flood(_, _)
Flood(m, seen) ==
  LET nxt == {q \in NonWall(m) \ seen : \E p \in seen : Adjacent(p, q)}
  IN IF nxt = {} THEN seen ELSE Flood(m, seen \cup nxt)

\* number of parent links between a node and the root
RECURSIVE Depth(_, _)
Depth(nds, h) == IF nds[h].parent = 0 THEN 0 ELSE 1 + Depth(nds, nds[h].parent)

\* number of steps of the route a successful search found
RouteSteps == Depth(nodes, found)

\* the coordinate an action leads to
MoveBy(p, action) ==
  CASE action = "left" -> <<p[1], p[2] - 1>>
    [] action = "right" -> <<p[1], p[2] + 1>>
    [] action = "up" -> <<p[1] - 1, p[2]>>
    [] action = "down" -> <<p[1] + 1, p[2]>>

Generated == gpc = "done"

Solved(a) == spc = "solved" /\ alg = a

----------------------------------------------------------------------------
(* Properties *)

\* C1: on every grid with the goal reachable, the route astar_first_search
\* finds has as many steps as the 4-connected shortest-path distance.
\* Violated under SpecHand: on DetourGrid the route has 9 steps, the distance is 7.
C1_AStarShortest ==
  Solved("astar") => RouteSteps = ShortestDist(maze, start, goal)

C3_BfsShortest ==
  Solved("bfs") => RouteSteps = ShortestDist(maze, start, goal)

C3_Witness ==
  /\ gpc = "hand"
  /\ Solved("bfs")
  /\ RouteSteps > Abs(start[1] - goal[1]) + Abs(start[2] - goal[2])

\* C4: after Maze(rows, cols) returns the grid has exactly one Start cell
\* and exactly one Goal cell.
\* Violated under Spec: Maze(3, 3) has its Goal overwritten by Start.
C4_OneStartOneGoal ==
  Generated => CountKind(maze, StartCell) = 1 /\ CountKind(maze, GoalCell) = 1

\* C5: in every generated maze a flood fill from Start over non-Wall cells
\* visits exactly the non-Wall cells.
C5_AllReachable ==
  Generated =>
     /\ Flood(maze, {start}) = NonWall(maze)
     /\ Cardinality(Flood(maze, {start})) = Cardinality(NonWall(maze))

C5_Witness ==
  /\ Generated
  /\ rows = 5
  /\ cols = 5
  /\ Cardinality(NonWall(maze)) = 7

\* C6: for every rows >= 1 and cols >= 1 constructing Maze(rows, cols)
\* raises no error.
\* Violated under Spec: Maze(1, 1) raises ValueError in randrange.
C6_NoError == gpc # "error"

\* C7: the maze has odd dimensions: an odd argument is kept, an even one is
\* incremented by one, and the grid has exactly that many rows and columns.
C7_OddDimensions ==
  /\ gpc \in {"carve", "done", "error"} =>
       /\ rows = (IF in_rows % 2 = 0 THEN in_rows + 1 ELSE in_rows)
       /\ cols = (IF in_cols % 2 = 0 THEN in_cols + 1 ELSE in_cols)
       /\ rows % 2 = 1
       /\ cols % 2 = 1
  /\ gpc \in {"carve", "done"} =>
       /\ DOMAIN maze = 0..(rows - 1)
       /\ \A r \in DOMAIN maze : DOMAIN maze[r] = 0..(cols - 1)

C7_Witness ==
  /\ Generated
  /\ in_rows = 4
  /\ in_cols = 3
  /\ NumRows(maze) = 5
  /\ NumCols(maze) = 3

\* C8: no non-Wall cell of a generated maze is farther from Start, in
\* 4-connected steps, than Goal.
C8_GoalFarthest ==
  Generated =>
     \A p \in NonWall(maze) :
        ShortestDist(maze, start, p) <= ShortestDist(maze, start, goal)

C8_Witness ==
  /\ Generated
  /\ ShortestDist(maze, start, goal) = 4
  /\ \E p \in NonWall(maze) : ShortestDist(maze, start, p) = 2 /\ ~Adjacent(p, goal)

OnCorridor == gpc = "hand" /\ rows = 5 /\ cols = 5 /\ maze = CorridorGrid

\* C9 as stated: on the 5x5 corridor all four searches return the 2-step
\* path [(right,(1,2)), (right,(1,3))].
C9_TwoStepPath ==
  (OnCorridor /\ spc = "solved") =>
     path = <<(<<"right", <<1, 2>>>>), (<<"right", <<1, 3>>>>)>>

\* C9 amended: on the 5x5 corridor all four searches find the 2-step route
\* and return it without the goal's pair, the path [(right,(1,2))].
C9_CorridorPath ==
  (OnCorridor /\ spc = "solved") =>
     /\ path = <<(<<"right", <<1, 2>>>>)>>
     /\ RouteSteps = 2
     /\ nodes[found].action = "right"

C9_Witness == OnCorridor /\ Solved("dfs") /\ Len(path) = 1

\* the coordinate before position i of the returned path
PathPrev(i) == IF i = 1 THEN start ELSE path[i - 1][2]

\* C10: when a search succeeds with start different from goal, the returned
\* path is the found route without the goal's pair: one pair less than the
\* route has steps, each coordinate obtained from the previous one (the first
\* from start) by its action, none being the goal, the last one cardinal step
\* from the goal.
C10_PathContract ==
  (spc = "solved" /\ start # goal) =>
     /\ Len(path) = RouteSteps - 1
     /\ \A i \in 1..Len(path) :
          /\ path[i][2] = MoveBy(PathPrev(i), path[i][1])
          /\ path[i][2] # goal
     /\ Adjacent(PathPrev(Len(path) + 1), goal)
     /\ nodes[found].state = MoveBy(PathPrev(Len(path) + 1), nodes[found].action)

C10_Witness ==
  /\ spc = "solved"
  /\ start # goal
  /\ Len(path) >= 3
  /\ alg = "greedy"

\* the states of the nodes frontier.remove() returned, in removal order
DequeuedStates == [i \in 1..Len(dequeued) |-> nodes[dequeued[i]].state]

\* C11: when a search succeeds, the returned explored list is the sequence
\* of states removed from the frontier before the goal node was removed, in
\* removal order, without the start state (the first one removed) and
\* without the goal state.
C11_ExploredContract ==
  spc = "solved" =>
     LET before == SubSeq(DequeuedStates, 1, Len(dequeued) - 1)
     IN /\ DequeuedStates[Len(dequeued)] = goal
        /\ (before # <<>> => before[1] = start)
        /\ out_explored = SubSeq(before, 2, Len(before))
        /\ \A i \in 1..Len(out_explored) : out_explored[i] \notin {start, goal}

C11_Witness ==
  /\ Solved("dfs")
  /\ Len(out_explored) >= 3
  /\ Len(dequeued) = Len(out_explored) + 2

Disconnected == ShortestDist(maze, start, goal) = -1

\* C12: on a grid whose Goal is disconnected from Start no search variant
\* returns a result: the call ends by raising the no-solution error, with
\* the frontier exhausted and every cell connected to Start dequeued.
C12_DisconnectedFails ==
  gpc = "hand" =>
     /\ (spc \in {"solved", "emptyfrontier"} \/ found # 0) => ~Disconnected
     /\ (spc = "nosolution" /\ Disconnected) =>
          /\ raised = NoSolutionError
          /\ frontier = <<>>
          /\ {DequeuedStates[i] : i \in 1..Len(dequeued)} = Flood(maze, {start})

C12_Witness ==
  /\ gpc = "hand"
  /\ Disconnected
  /\ spc = "nosolution"
  /\ alg = "greedy"
  /\ Len(explored) >= 3

\* C13: every search call terminates, Solved or Exhausted, after dequeuing
\* at most rows x cols nodes: each step of a running search either ends the
\* call in one of the two terminal states or dequeues one more node, and
\* never more than rows x cols nodes are dequeued.
C13_Terminates ==
  [][/\ spc = "loop" =>
          \/ spc' = "nosolution" /\ dequeued' = dequeued
          \/ spc' \in {"solved", "loop"} /\ Len(dequeued') = Len(dequeued) + 1
     /\ spc' \in {"idle", "loop", "solved", "nosolution"}
     /\ Len(dequeued') <= rows' * cols']_vars

C13_Witness ==
  /\ gpc = "hand"
  /\ spc = "solved"
  /\ Len(dequeued) = rows * cols

\* C20: in no run of a search is remove called on an empty frontier: the
\* empty-frontier error is never raised and exhaustion is always reported
\* as the no-solution error.
C20_NoEmptyRemove ==
  gpc = "hand" =>
     /\ spc # "emptyfrontier"
     /\ raised # EmptyFrontierError
     /\ (spc = "nosolution") = (raised = NoSolutionError)
     /\ spc = "nosolution" => frontier = <<>>

C20_Witness ==
  /\ gpc = "hand"
  /\ spc = "nosolution"
  /\ alg = "bfs"
  /\ Len(dequeued) >= 2

\* the four actions in the order the neighbours are to be listed
ActionOrder == <<"left", "right", "up", "down">>

\* the pairs of the cardinal neighbours of p that are cells of the grid and
\* not Wall, in that order
IsNonWallCell(m, q) == q[1] \in DOMAIN m /\ q[2] \in DOMAIN m[q[1]] /\ m[q[1]][q[2]] # Wall

ExpectedNext(m, p) ==
  SelectSeq([i \in 1..4 |-> <<ActionOrder[i], MoveBy(p, ActionOrder[i])>>],
            LAMBDA x : IsNonWallCell(m, x[2]))

\* C14: for every cell of every grid, get_next returns the (action,
\* coordinate) pairs of exactly those cardinal neighbours that lie within the
\* grid and are not Wall, in the order left, right, up, down.  Every cell is
\* compared on the grid a search is given, and the cell expanded last in
\* every later state (the grid is the same throughout the search).
C14_GetNext ==
  gpc = "hand" =>
     /\ spc = "idle" =>
          \A p \in CellsOf(maze) : get_next(maze, rows, cols, p) = ExpectedNext(maze, p)
     /\ explored # <<>> =>
          get_next(maze, rows, cols, explored[Len(explored)])
             = ExpectedNext(maze, explored[Len(explored)])

C14_Witness ==
  /\ gpc = "hand"
  /\ spc = "loop"
  /\ explored = <<(<<0, 2>>)>>
  /\ maze[0][1] = Wall
  /\ get_next(maze, rows, cols, <<0, 2>>) = <<(<<"down", <<1, 2>>>>)>>
  /\ get_next(maze, rows, cols, <<1, 1>>) = <<(<<"left", <<1, 0>>>>), (<<"right", <<1, 2>>>>)>>

----------------------------------------------------------------------------
(* Properties of a frontier used on its own *)

\* the nodes added so far and not yet removed, from the two histories
Held == {h \in 1..Len(nodes) : \A i \in 1..Len(dequeued) : dequeued[i] # h}

\* the step is a call of remove on the frontier
RemoveCall == calls' = Append(calls, "remove")

\* the node the call returned
Returned == dequeued'[Len(dequeued')]

ThreeAddsThreeRemoves == <<"add", "add", "add", "remove", "remove", "remove">>

\* C15 is not stated: get_next is an operator, and two evaluations of an
\* operator on the same arguments agree in every model.

\* C16: on a StackFrontier remove returns the most recently added node not
\* yet removed, after any sequence of add and remove; adding N1, N2, N3 and
\* removing three times yields N3, N2, N1.
C16_StackDiscipline ==
  [][(gpc = "frontier" /\ alg = "dfs") =>
       /\ (RemoveCall /\ Held # {}) =>
            /\ Len(dequeued') = Len(dequeued) + 1
            /\ Returned \in Held
            /\ \A h \in Held : h <= Returned
       /\ calls' = ThreeAddsThreeRemoves => dequeued' = <<3, 2, 1>>]_vars

C16_Witness ==
  /\ gpc = "frontier"
  /\ alg = "dfs"
  /\ calls = <<"add", "add", "remove", "add", "remove", "remove">>
  /\ dequeued = <<2, 3, 1>>

\* C17: on a QueueFrontier remove returns the earliest added node not yet
\* removed, after any sequence of add and remove; adding N1, N2, N3 and
\* removing three times yields N1, N2, N3.
C17_QueueDiscipline ==
  [][(gpc = "frontier" /\ alg = "bfs") =>
       /\ (RemoveCall /\ Held # {}) =>
            /\ Len(dequeued') = Len(dequeued) + 1
            /\ Returned \in Held
            /\ \A h \in Held : Returned <= h
       /\ calls' = ThreeAddsThreeRemoves => dequeued' = <<1, 2, 3>>]_vars

C17_Witness ==
  /\ gpc = "frontier"
  /\ alg = "bfs"
  /\ calls = <<"add", "add", "remove", "add", "remove", "remove">>
  /\ dequeued = <<1, 2, 3>>

\* the priority the frontier's function gives a node
Priority(h) == func(alg, nodes[h], goal)

\* C18: on a PriorityQueueFrontier remove returns a node of minimal priority
\* among the nodes held and, among those of equal priority, the one added
\* earliest, after any sequence of add and remove; adding priorities 5, 1, 3
\* and removing three times yields the priorities 1, 3, 5.
C18_PriorityDiscipline ==
  [][(gpc = "frontier" /\ alg \in {"greedy", "astar"}) =>
       /\ (RemoveCall /\ Held # {}) =>
            /\ Len(dequeued') = Len(dequeued) + 1
            /\ Returned \in Held
            /\ \A h \in Held :
                 \/ Priority(Returned) < Priority(h)
                 \/ Priority(Returned) = Priority(h) /\ Returned <= h
       /\ (/\ calls' = ThreeAddsThreeRemoves
           /\ [h \in 1..3 |-> func(alg', nodes'[h], goal')] = <<5, 1, 3>>)
            => [i \in 1..3 |-> func(alg', nodes'[dequeued'[i]], goal')] = <<1, 3, 5>>]_vars

C18_Witness ==
  /\ gpc = "frontier"
  /\ alg = "astar"
  /\ calls = <<"add", "add", "add", "add", "remove", "remove">>
  /\ [h \in 1..4 |-> Priority(h)] = <<5, 3, 1, 3>>
  /\ nodes[2].state # nodes[4].state
  /\ dequeued = <<3, 2>>

\* C19: remove on an empty frontier, whatever the discipline, fails with the
\* empty-frontier error, which is not the no-solution error, returns no node
\* and leaves the frontier empty.
C19_EmptyRemove ==
  [][(gpc = "frontier" /\ RemoveCall /\ Held = {}) =>
       /\ frontier = <<>>
       /\ raised' = EmptyFrontierError
       /\ raised' # NoSolutionError
       /\ dequeued' = dequeued
       /\ frontier' = <<>>]_vars

C19_Witness ==
  /\ gpc = "frontier"
  /\ alg = "greedy"
  /\ calls = <<"add", "remove", "remove">>
  /\ raised = EmptyFrontierError
  /\ dequeued = <<1>>
  /\ frontier = <<>>

----------------------------------------------------------------------------
(* Properties of two calls on one grid *)

\* a call that has returned or raised did so as the same call run alone does
AsAlone(c) ==
  c.spc \in {"solved", "nosolution", "emptyfrontier"} =>
     LET r == SearchAlone(c.alg)
     IN /\ c.spc = r.spc
        /\ c.raised = r.raised
        /\ c.path = r.path
        /\ c.out_explored = r.out_explored

\* C21: two search calls over one grid, their steps interleaved in any
\* order, each return the (path, explored) pair the call returns when run
\* alone; no step changes the grid, start or goal, and a step of one call
\* leaves the locals of the other call as they were.
C21_ParallelAsAlone ==
  [][/\ maze' = maze /\ start' = start /\ goal' = goal
     /\ \/ other' = other
        \/ other' = Locals /\ Locals' = other
     /\ AsAlone(Locals')
     /\ AsAlone(other')]_vars

C21_Witness ==
  /\ maze = DetourGrid
  /\ Solved("astar")
  /\ other.spc = "solved"
  /\ other.alg = "bfs"
  /\ Len(path) = 8
  /\ Len(other.path) = 6
  /\ Len(other.dequeued) > 3

----------------------------------------------------------------------------
(* Properties of the searches on generated mazes *)

\* the returned path takes one cardinal step at a time from Start, by the
\* action it names, over non-Wall cells
StepsFromStart ==
  \A i \in 1..Len(path) :
     /\ Adjacent(PathPrev(i), path[i][2])
     /\ path[i][2] = MoveBy(PathPrev(i), path[i][1])
     /\ maze[path[i][2][1]][path[i][2][2]] # Wall

\* C22 as stated: on every generated maze the path depth_first_search or
\* greedy_first_search returns takes one cardinal step at a time over
\* non-Wall cells, starts at Start and ends at Goal.
\* Violated under Spec: the last coordinate of the returned path is the cell
\* before Goal, and the path is empty when Goal is next to Start.
C22_PathReachesGoal ==
  (Generated /\ (Solved("dfs") \/ Solved("greedy"))) =>
     /\ StepsFromStart
     /\ path # <<>>
     /\ path[Len(path)][2] = goal

\* C22 amended: on every generated maze the path depth_first_search or
\* greedy_first_search returns takes one cardinal step at a time from Start
\* over non-Wall cells and stops one cardinal step before Goal, the goal's
\* pair being left out (the path is empty when Start is Goal).
C22_PathValid ==
  (Generated /\ (Solved("dfs") \/ Solved("greedy"))) =>
     /\ StepsFromStart
     /\ \A i \in 1..Len(path) : path[i][2] # goal
     /\ IF start = goal THEN path = <<>>
        ELSE /\ Adjacent(PathPrev(Len(path) + 1), goal)
             /\ Len(path) = RouteSteps - 1

C22_Witness ==
  /\ Generated
  /\ Solved("greedy")
  /\ Len(path) >= 5
  /\ \E i \in 1..(Len(path) - 1) : path[i][1] # path[i + 1][1]

\* the grid find_farthest_point was given: the carved maze, Start cleared
Carved == SetCell(SetCell(maze, start[1], start[2], Open), goal[1], goal[2], Open)

\* the cells at maximum breadth-first distance from Start, in the order the
\* breadth-first loop dequeued them
FarthestTies ==
  LET visits == FarthestVisits(Carved, <<(<<start[1], start[2], 0>>)>>, {})
  IN SelectSeq(visits, LAMBDA v : \A i \in 1..Len(visits) : visits[i][3] <= v[3])

\* C23 as stated: when several cells share the maximum breadth-first
\* distance from Start, Goal is the last of them in dequeue order.
\* Violated under Spec: the comparison is strict, so the first one is kept.
C23_GoalLastTie ==
  Generated =>
     LET ties == FarthestTies
     IN goal = <<ties[Len(ties)][1], ties[Len(ties)][2]>>

\* C23 amended: when several cells share the maximum breadth-first distance
\* from Start, Goal is the first of them in dequeue order.
C23_GoalFirstTie ==
  Generated =>
     LET ties == FarthestTies
     IN goal = <<ties[1][1], ties[1][2]>>

C23_Witness ==
  /\ Generated
  /\ Len(FarthestTies) >= 3
  /\ goal # <<FarthestTies[2][1], FarthestTies[2][2]>>
  /\ goal # <<FarthestTies[3][1], FarthestTies[3][2]>>

----------------------------------------------------------------------------
(* Properties of the search loop *)

\* C24: in every search variant a coordinate that has been expanded is
\* never added to the frontier again: no node added by a step has an
\* explored state, the node a step dequeues has a state not explored before,
\* and the explored list holds each coordinate of the explored set once.
C24_ExpandedOnce ==
  [][gpc = "hand" =>
       /\ \A h \in (Len(nodes) + 1)..Len(nodes') : nodes'[h].state \notin explored_states'
       /\ Len(dequeued') > Len(dequeued) => nodes[Returned].state \notin explored_states
       /\ explored_states' = {explored'[i] : i \in 1..Len(explored')}
       /\ Cardinality(explored_states') = Len(explored')]_vars

C24_Witness ==
  /\ gpc = "hand"
  /\ alg = "astar"
  /\ spc = "loop"
  /\ Len(explored) >= 4
  /\ \E i, j \in 1..Len(explored) : i + 1 < j /\ Adjacent(explored[i], explored[j])

\* the position of an action in the enumeration left, right, up, down
ActionIndex(action) == CHOOSE i \in 1..4 : ActionOrder[i] = action

\* the nodes the last expansion added: the children of the node dequeued last
LastAdded == {h \in 1..Len(nodes) : nodes[h].parent = dequeued[Len(dequeued)]}

\* C25: in depth_first_search, when the expansion of a node added at least
\* one neighbour, the next node dequeued is one of the added neighbours, the
\* one whose action comes last in the order left, right, up, down: "down"
\* when it was added, and a neighbour of an earlier direction only when no
\* later one was added.
C25_DfsLastAddedFirst ==
  [][(/\ gpc = "hand" /\ alg = "dfs" /\ spc = "loop"
      /\ dequeued # <<>>
      /\ LastAdded # {}
      /\ Len(dequeued') > Len(dequeued)) =>
       /\ Returned \in LastAdded
       /\ \A k \in LastAdded :
            ActionIndex(nodes[k].action) <= ActionIndex(nodes[Returned].action)
       /\ (\E k \in LastAdded : nodes[k].action = "down") => nodes[Returned].action = "down"
       /\ nodes[Returned].state
            = MoveBy(nodes[dequeued[Len(dequeued)]].state, nodes[Returned].action)]_vars

C25_Witness ==
  /\ gpc = "hand"
  /\ alg = "dfs"
  /\ spc = "loop"
  /\ Len(dequeued) = 2
  /\ nodes[dequeued[2]].action = "down"
  /\ \E h \in 1..Len(frontier) :
        nodes[frontier[h]].parent = 1 /\ nodes[frontier[h]].action = "left"
  /\ \E h \in 1..Len(frontier) :
        nodes[frontier[h]].parent = 1 /\ nodes[frontier[h]].action = "right"

\* cost plus Manhattan distance to the goal, for a node of astar_first_search
CostPlusManhattan(n) == n.cost + Abs(n.state[1] - goal[1]) + Abs(n.state[2] - goal[2])

\* C26: in astar_first_search every node created has a cost equal to the
\* number of parent links between it and the start node: 0 for the start
\* node, its parent's cost plus 1 for a child, never negative; and the
\* frontier is kept in the order of cost plus Manhattan distance to the
\* goal, so that the node dequeued has the least such sum.
C26_AStarCost ==
  [][(gpc = "hand" /\ alg' = "astar") =>
       /\ \A h \in (Len(nodes) + 1)..Len(nodes') :
            /\ nodes'[h].cost = Depth(nodes', h)
            /\ nodes'[h].cost >= 0
            /\ IF nodes'[h].parent = 0 THEN nodes'[h].cost = 0 /\ nodes'[h].state = start
               ELSE nodes'[h].cost = nodes'[nodes'[h].parent].cost + 1
       /\ \A i \in 1..(Len(frontier') - 1) :
            CostPlusManhattan(nodes'[frontier'[i]]) <= CostPlusManhattan(nodes'[frontier'[i + 1]])
       /\ Len(dequeued') > Len(dequeued) =>
            \A i \in 1..Len(frontier) :
               CostPlusManhattan(nodes[Returned]) <= CostPlusManhattan(nodes[frontier[i]])]_vars

C26_Witness ==
  /\ gpc = "hand"
  /\ alg = "astar"
  /\ Len(frontier) >= 2
  /\ nodes[frontier[1]].cost > nodes[frontier[2]].cost
  /\ CostPlusManhattan(nodes[frontier[1]]) < CostPlusManhattan(nodes[frontier[2]])
  /\ nodes[frontier[1]].cost >= 3

----------------------------------------------------------------------------
(* Properties of the priority functions *)

Diff(a, b) == IF a >= b THEN a - b ELSE b - a

\* manhattan_distance of a cell is |row - goal_row| + |col - goal_col| and,
\* when the goal can be reached from the cell, at most the shortest-path
\* distance between them
Admissible(p) ==
  LET h == manhattan_distance([state |-> p], goal)
      d == ShortestDist(maze, p, goal)
  IN /\ h = Diff(p[1], goal[1]) + Diff(p[2], goal[2])
     /\ d # -1 => h <= d

\* C27: manhattan_distance is admissible: on every grid, for every goal and
\* every non-Wall cell from which the goal is reachable, it is
\* |row - goal_row| + |col - goal_col| (7 for (0,0) and (3,4)) and at most
\* the 4-connected shortest-path distance from the cell to the goal.  Every
\* non-Wall cell of every grid a search is given is compared, and the state
\* of the goal node a search found.
C27_ManhattanAdmissible ==
  gpc = "hand" =>
     /\ manhattan_distance([state |-> <<0, 0>>], <<3, 4>>) = 7
     /\ spc = "idle" => \A p \in NonWall(maze) : Admissible(p)
     /\ spc = "solved" => manhattan_distance(nodes[found], goal) = 0

C27_Witness ==
  /\ gpc = "hand"
  /\ maze = DetourGrid
  /\ alg = "greedy"
  /\ frontier # <<>>
  /\ manhattan_distance(nodes[frontier[1]], goal) = 3
  /\ ShortestDist(maze, nodes[frontier[1]].state, goal) = 5
  /\ manhattan_distance([state |-> start], goal) = 5
  /\ ShortestDist(maze, start, goal) = 7

----------------------------------------------------------------------------
(* Properties of the batch harnesses *)

\* C28: for each algorithm the value a batch harness records as its path
\* length is the length of the path the algorithm returned, and the value
\* recorded as its explored count is the length of its explored list plus 1.
\* Violated under Spec: the returned pair is unpacked in the opposite order,
\* so the path length recorded is that of the explored list, and the
\* explored count recorded is the length of the path plus 1.
C28_RecordedLengths ==
  results # <<>> =>
     /\ results[2] = Len(path)
     /\ results[1] = Len(out_explored) + 1

----------------------------------------------------------------------------
(* Properties comparing the variants *)

----------------------------------------------------------------------------
(* Properties of the carved maze *)

\* the number of cells with both coordinates odd
LatticeCells == ((rows - 1) \div 2) * ((cols - 1) \div 2)

\* C30: the non-Wall cells of a generated maze form a tree under
\* 4-adjacency, so that exactly one route repeating no cell joins any two of
\* them: they are connected and there is one adjacent pair less than there
\* are cells; and there are 2*L - 1 of them, L = ((rows-1)/2) * ((cols-1)/2)
\* being the number of cells with both coordinates odd.
C30_PerfectMaze ==
  Generated =>
     LET open == NonWall(maze)
         pairs == {pq \in open \X open : pq[1][1] < pq[2][1] \/
                                          (pq[1][1] = pq[2][1] /\ pq[1][2] < pq[2][2])}
     IN /\ Cardinality(open) = 2 * LatticeCells - 1
        /\ Flood(maze, {start}) = open
        /\ Cardinality({pq \in pairs : Adjacent(pq[1], pq[2])}) = Cardinality(open) - 1

C30_Witness ==
  /\ Generated
  /\ rows = 5
  /\ cols = 7
  /\ Cardinality(NonWall(maze)) = 11
  /\ \E p \in NonWall(maze) : Cardinality({q \in NonWall(maze) : Adjacent(p, q)}) = 3

\* C31: on every generated maze the four search variants return the same
\* path: when a search of a generated maze returns, each of the four
\* variants run on that maze returns, and returns that path; their explored
\* lists may differ.
C31_SamePath ==
  [][(Generated /\ spc = "loop" /\ spc' = "solved") =>
       \A a \in Algs :
          /\ SearchAlone(a).spc = "solved"
          /\ SearchAlone(a).path = path']_vars

C31_Witness ==
  /\ Generated
  /\ Solved("dfs")
  /\ Len(path) >= 5
  /\ SearchAlone("bfs").path = path
  /\ SearchAlone("bfs").out_explored # out_explored
  /\ Len(SearchAlone("astar").out_explored) < Len(SearchAlone("bfs").out_explored)

\* the coordinates of the nodes in the frontier, in frontier order
FrontierStates == [i \in 1..Len(frontier) |-> nodes[frontier[i]].state]

\* C32: after every step of every search variant the frontier holds at most
\* one node per coordinate, and no coordinate is both in the frontier and in
\* the explored set.
C32_FrontierDistinct ==
  [][gpc = "hand" =>
       /\ \A i, j \in 1..Len(frontier') : i # j => FrontierStates'[i] # FrontierStates'[j]
       /\ \A i \in 1..Len(frontier') : FrontierStates'[i] \notin explored_states']_vars

C32_Witness ==
  /\ gpc = "hand"
  /\ spc = "loop"
  /\ Len(frontier) >= 2
  /\ Len(explored) >= 3
  /\ \E i \in 1..Len(frontier) :
        Cardinality({p \in explored_states : Adjacent(p, FrontierStates[i])}) >= 2

OnBorder(p) == p[1] = 0 \/ p[1] = rows - 1 \/ p[2] = 0 \/ p[2] = cols - 1

\* C33: in a generated maze, which has at least 3 rows and 3 columns, every
\* cell of the first or last row or column is a Wall, every cell with both
\* coordinates odd is not a Wall, every cell with both coordinates even is a
\* Wall, and Start is a cell with both coordinates odd.
C33_LatticeLayout ==
  Generated =>
     /\ rows >= 3
     /\ cols >= 3
     /\ \A p \in CellsOf(maze) :
          /\ OnBorder(p) => maze[p[1]][p[2]] = Wall
          /\ (p[1] % 2 = 1 /\ p[2] % 2 = 1) => maze[p[1]][p[2]] # Wall
          /\ (p[1] % 2 = 0 /\ p[2] % 2 = 0) => maze[p[1]][p[2]] = Wall
     /\ start[1] % 2 = 1
     /\ start[2] % 2 = 1
     /\ start \in CellsOf(maze)
     /\ maze[start[1]][start[2]] = StartCell

C33_Witness ==
  /\ Generated
  /\ rows = 5
  /\ cols = 7
  /\ start = <<3, 5>>
  /\ maze[1][2] = Wall
  /\ maze[2][1] = Open
  /\ maze[3][4] = Open

====
